---- MODULE Spec2Model ----
(***************************************************************************)
(* Model of netzooe_eservice_api.api.NetzOOEeServiceAPI: the session /     *)
(* authentication life cycle of the client (login, the authenticated       *)
(* request primitive with its one re-login, logout) and the data           *)
(* operations that delegate to it.                                         *)
(*                                                                         *)
(* A task is one coroutine of the caller.  It runs from one await of an    *)
(* HTTP request to the next, so every action below is "a response arrives  *)
(* and the code runs on until the next request is sent or the call ends".   *)
(* Strings the code inspects (Set-Cookie values, the token) are sequences  *)
(* of one-character strings.                                               *)
(***************************************************************************)
EXTENDS Integers, Sequences, FiniteSets, TLC

\* ------------------------------------------------------------------ bounds
\* number of operations the caller issues on one client
MaxCalls == 3
\* number of Set-Cookie headers a session-info response carries at most
MaxCookies == 2
\* length of the lists a caller passes to consents, consumptions_profiles
\* and consumptions_profile
MaxList == 2

\* --------------------------------------------------------------- constants
OK == 200
UNAUTHORIZED == 401
\* status=None of APIError.__init__
NoStatus == 0

\* statuses the server answers with (members of http.HTTPStatus)
Statuses == {OK, 400, UNAUTHORIZED, 500}

Tasks == {1, 2}

\* ----------------------------------------------------- strings and cookies
\* the literal part of the pattern r"XSRF-TOKEN=([^;]+)"
XSRF_PATTERN == <<"X", "S", "R", "F", "-", "T", "O", "K", "E", "N", "=">>

PathAttr == <<";", " ", "P", "a", "t", "h", "=", "/">>

\* Set-Cookie header values a session-info response is built from
CookieA == XSRF_PATTERN \o <<"a">> \o PathAttr
CookieB == XSRF_PATTERN \o <<"b">>
CookieEmpty == XSRF_PATTERN \o PathAttr
CookieJSession == <<"J", "S", "I", "D", "=", "s">> \o PathAttr
CookieOld == <<"O", "L", "D", "-">> \o XSRF_PATTERN \o <<"c">>

Cookies == {CookieA, CookieB, CookieEmpty, CookieJSession, CookieOld}

RECURSIVE SeqsUpTo(_, _)
SeqsUpTo(S, n) ==
    IF n = 0 THEN {<<>>}
    ELSE LET shorter == SeqsUpTo(S, n - 1)
         IN  shorter \cup {Append(s, x) : s \in shorter, x \in S}

\* the Set-Cookie lists of the session-info responses
HeaderLists == SeqsUpTo(Cookies, MaxCookies)

\* ";".join(cookies)
RECURSIVE Join(_)
Join(cookies) ==
    IF Len(cookies) = 0 THEN <<>>
    ELSE IF Len(cookies) = 1 THEN cookies[1]
    ELSE cookies[1] \o <<";">> \o Join(Tail(cookies))

\* the pattern matches at position i: the literal, then at least one
\* character that is not ";"
MatchesAt(s, i) ==
    /\ i + Len(XSRF_PATTERN) <= Len(s)
    /\ SubSeq(s, i, i + Len(XSRF_PATTERN) - 1) = XSRF_PATTERN
    /\ s[i + Len(XSRF_PATTERN)] # ";"

\* the greedy group ([^;]+) starting at position j
GroupFrom(s, j) ==
    LET stops == {k \in j..Len(s) : s[k] = ";"}
        last == IF stops = {} THEN Len(s)
                ELSE (CHOOSE k \in stops : \A m \in stops : k <= m) - 1
    IN  SubSeq(s, j, last)

\* re.search(r"XSRF-TOKEN=([^;]+)", s): the leftmost match, or no match
ReSearch(s) ==
    LET hits == {i \in 1..Len(s) : MatchesAt(s, i)}
    IN  IF hits = {} THEN [found |-> FALSE, group |-> <<>>]
        ELSE LET i == CHOOSE k \in hits : \A m \in hits : k <= m
             IN  [found |-> TRUE, group |-> GroupFrom(s, i + Len(XSRF_PATTERN))]

\* a variant that clears the token when the response carries none
SetXsrfTokenClearing(token, cookies) ==
    ReSearch(Join(cookies)).group

\* a variant that keeps a token that is stored already
SetXsrfTokenOnce(token, cookies) ==
    LET match == ReSearch(Join(cookies))
    IN  IF match.found /\ token = <<>> THEN match.group ELSE token

\* _set_xsrf_token: the token after the session-info response's headers
SetXsrfToken(token, cookies) ==
    LET match == ReSearch(Join(cookies))
    IN  IF match.found THEN match.group ELSE token

\* ------------------------------------------------------------------ errors
\* f"{status} {status.phrase}: {status.description}" of http.HTTPStatus
StatusMessage(status) ==
    CASE status = 400 -> "400 Bad Request: Bad request syntax or unsupported method"
      [] status = UNAUTHORIZED -> "401 Unauthorized: No permission -- see authorization schemes"
      [] status = 500 -> "500 Internal Server Error: Server got itself in trouble"
      [] OTHER -> "200 OK: Request fulfilled, document follows"

\* APIError.__init__ (type is "APIError" or its subclass "AuthenticationError")
APIError(type, message, status) ==
    [type |-> type, status |-> status,
     message |-> IF status # NoStatus THEN StatusMessage(status) ELSE message]

\* an exception of another library that the client lets through
ForeignError(type, message) ==
    [type |-> type, status |-> NoStatus, message |-> message]

NoOutcome == [kind |-> "none", type |-> "", status |-> NoStatus, message |-> "", value |-> ""]

\* ---------------------------------------------------------------- requests
\* URLs are written as the path below ESERVICE_PORTAL
ESERVICE_PORTAL_API == "/service/v1.0"

DataOps == {"dashboard", "consents", "consumptions_profiles", "contract_accounts",
            "consumptions_profile"}

\* _get for every data operation but consumptions_profile, which uses _post
Method(op) == IF op = "consumptions_profile" THEN "POST" ELSE "GET"

\* ---------------------------------------------------------------- arguments
\* members of the enums of constants.py
ConsentsStatus == {"ACTIVE", "ACTIVE_UNCHANGEABLE", "REVOKED"}
ConsumptionsProfilesBranch == {"ELECTRICITY"}

\* Enum.value
EnumValue(member) == IF member = "ELECTRICITY" THEN "STROM" ELSE member

\* profile-request descriptors a caller asks for
Descriptor1 ==
    [contract_account_number |-> "123", energy_community_id |-> "345",
     profile_type |-> "mocked-profile",
     best_available_granularity |-> "mocked-granularity",
     meter_point_administration_number |-> "AT123",
     date_from |-> "2026-01-01", date_to |-> "2026-01-30"]

Descriptor2 ==
    [contract_account_number |-> "456", energy_community_id |-> "678",
     profile_type |-> "other-profile",
     best_available_granularity |-> "other-granularity",
     meter_point_administration_number |-> "AT456",
     date_from |-> "2026-02-01", date_to |-> "2026-02-28"]

Descriptors == {Descriptor1, Descriptor2}

\* what the caller passes to a data operation
\*   none     None, or nothing for dashboard
\*   single   one enum member
\*   list     a list of enum members
\*   accounts business_partner_number a, contract_account_number b
\*   scalars  the seven fields of one descriptor (pods[1]), one per parameter
\*   pods     a list of descriptors as the keyword argument pods
NoArg == [kind |-> "none", single |-> "", list |-> <<>>, a |-> "", b |-> "", pods |-> <<>>]
SingleArg(member) == [NoArg EXCEPT !.kind = "single", !.single = member]
ListArg(members) == [NoArg EXCEPT !.kind = "list", !.list = members]
AccountsArg(a, b) == [NoArg EXCEPT !.kind = "accounts", !.a = a, !.b = b]
ScalarsArg(d) == [NoArg EXCEPT !.kind = "scalars", !.pods = <<d>>]
PodsArg(ds) == [NoArg EXCEPT !.kind = "pods", !.pods = ds]

FilterArgs(members) ==
    {NoArg} \cup {SingleArg(m) : m \in members}
            \cup {ListArg(l) : l \in SeqsUpTo(members, MaxList)}

\* the arguments each data operation is called with
Args(op) ==
    CASE op = "consents" -> FilterArgs(ConsentsStatus)
      [] op = "consumptions_profiles" -> FilterArgs(ConsumptionsProfilesBranch)
      [] op = "contract_accounts" -> {AccountsArg("123", "345")}
      [] op = "consumptions_profile" ->
            {ScalarsArg(d) : d \in Descriptors}
                \cup {PodsArg(ds) : ds \in SeqsUpTo(Descriptors, MaxList)}
      [] OTHER -> {NoArg}

\* one argument per operation, for the runs that are about the session
DefaultArgs(op) ==
    CASE op = "contract_accounts" -> {AccountsArg("123", "345")}
      [] op = "consumptions_profile" -> {ScalarsArg(Descriptor1)}
      [] OTHER -> {NoArg}

\* consumptions_profile has seven positional parameters and none named
\* pods: Python refuses the call with TypeError
Accepts(op, arg) == ~(op = "consumptions_profile" /\ arg.kind = "pods")

\* a variant that joins the values in reverse order
RECURSIVE JoinCommaReversed(_)
JoinCommaReversed(values) ==
    IF Len(values) = 0 THEN ""
    ELSE IF Len(values) = 1 THEN values[1]
    ELSE JoinCommaReversed(Tail(values)) \o "," \o values[1]

\* ",".join(values)
RECURSIVE JoinComma(_)
JoinComma(values) ==
    IF Len(values) = 0 THEN ""
    ELSE IF Len(values) = 1 THEN values[1]
    ELSE values[1] \o "," \o JoinComma(Tail(values))

\* consents lines 163-170, consumptions_profiles lines 179-186: a value that
\* is not None and not a list is wrapped in a list; a list becomes
\* ?<key>=<values joined by commas>; None leaves the query empty
Query(key, arg) ==
    LET members == IF arg.kind = "single" THEN <<arg.single>> ELSE arg.list
    IN  IF arg.kind \in {"single", "list"}
        THEN "?" \o key \o "=" \o
                JoinComma([i \in 1..Len(members) |-> EnumValue(members[i])])
        ELSE ""

\* the URL each data operation requests
Url(op, arg) ==
    CASE op = "dashboard" -> ESERVICE_PORTAL_API \o "/dashboard"
      [] op = "consents" -> ESERVICE_PORTAL_API \o "/consents" \o Query("status", arg)
      [] op = "consumptions_profiles" ->
            ESERVICE_PORTAL_API \o "/consumptions/profiles" \o Query("branch", arg)
      [] op = "contract_accounts" ->
            ESERVICE_PORTAL_API \o "/contract-accounts/" \o arg.a \o "/" \o arg.b
      [] OTHER -> ESERVICE_PORTAL_API \o "/consumptions/profile/active"

\* json=None of _get
NoJson == [pods |-> <<>>, dimension |-> ""]

\* consumptions_profile lines 213-220: one entry of pods
Pod(d) ==
    [energyCommunityId |-> d.energy_community_id,
     type |-> d.profile_type,
     bestAvailableGranularity |-> d.best_available_granularity,
     meterPointAdministrationNumber |-> d.meter_point_administration_number,
     contractAccountNumber |-> d.contract_account_number,
     timerange |-> [from |-> d.date_from, to |-> d.date_to]]

\* consumptions_profile lines 211-223: the body of the POST
Json(op, arg) ==
    IF op = "consumptions_profile"
    THEN [pods |-> <<Pod(arg.pods[1])>>, dimension |-> "ENERGY"]
    ELSE NoJson

\* one request as the transport sees it, and what came back for it
Exchange(ep, method, url, contentType, hasXsrf, xsrf) ==
    [ep |-> ep, method |-> method, url |-> url,
     contentType |-> contentType, hasXsrf |-> hasXsrf, xsrf |-> xsrf,
     json |-> NoJson,
     res |-> "pending", status |-> NoStatus, body |-> "", delivered |-> {}]

\* login: POST j_security_check with COMMON_HEADERS and Content-Type
AuthExchange == Exchange("auth", "POST", "/service/j_security_check", TRUE, FALSE, <<>>)

\* _get_session: GET session with COMMON_HEADERS only
SessionExchange == Exchange("session", "GET", ESERVICE_PORTAL_API \o "/session", FALSE, FALSE, <<>>)

\* logout: GET logout with COMMON_HEADERS only
LogoutExchange == Exchange("logout", "GET", "/service/logout", FALSE, FALSE, <<>>)

\* the headers property: COMMON_HEADERS, Content-Type and x-xsrf-token
Headers(token) == [contentType |-> TRUE, hasXsrf |-> TRUE, xsrf |-> token]

\* _request: the data request with self.headers.copy()
DataExchange(tk, token) ==
    LET h == Headers(token)
    IN  [Exchange("data", tk.method, tk.url, h.contentType, h.hasXsrf, h.xsrf)
            EXCEPT !.json = tk.json]

\* ------------------------------------------------------------------- state
VARIABLES
    xsrf_token,   \* self.xsrf_token
    closed,       \* self._session.closed
    task,         \* per task: where its current call stands
    ncalls,       \* operations issued so far
    lastLogin,    \* history: the task whose login() returned last, 0 if none
    loginCompleted \* history: the auth endpoint and then the session-info
                  \* endpoint have answered OK to one login() of this client

vars == <<xsrf_token, closed, task, ncalls, lastLogin, loginCompleted>>

\* pc: idle | await_auth | await_session | await_data | await_logout | done
\* ctx: which login() is running
\*   explicit    the caller's own login()
\*   initial     line 89 of the first _request frame (outside any try)
\*   relogin     line 102, inside the try of the first frame
\*   retry_login line 89 of the retry frame, which runs inside the try of
\*               the first frame (it is called from line 103)
IdleTask ==
    [pc |-> "idle", op |-> "", arg |-> NoArg, method |-> "", url |-> "",
     json |-> NoJson, retry |-> TRUE,
     ctx |-> "", tokAtLogin |-> <<>>, log |-> <<>>, outcome |-> NoOutcome,
     token0 |-> <<>>, closed0 |-> FALSE]

\* __init__: no token, the session the caller handed over is open
Init ==
    /\ xsrf_token = <<>>
    /\ closed = FALSE
    /\ task = [t \in Tasks |-> IdleTask]
    /\ ncalls = 0
    /\ lastLogin = 0
    /\ loginCompleted = FALSE

\* ------------------------------------------------------- control flow steps
Raised(tk, err) ==
    [tk EXCEPT !.pc = "done",
               !.outcome = [kind |-> "raise", type |-> err.type, status |-> err.status,
                            message |-> err.message, value |-> ""]]

Returned(tk, value) ==
    [tk EXCEPT !.pc = "done",
               !.outcome = [kind |-> "return", type |-> "", status |-> NoStatus,
                            message |-> "", value |-> value]]

\* ClientSession.request/get/post: a closed session refuses the request with
\* RuntimeError, which no handler of the client catches
SessionRequest(tk, cl, exchange, pc) ==
    IF cl THEN Raised(tk, ForeignError("RuntimeError", "Session is closed"))
    ELSE [tk EXCEPT !.log = Append(@, exchange), !.pc = pc]

\* what came back for the request the task was waiting on
Answered(tk, r) ==
    [tk EXCEPT !.log[Len(tk.log)].res = r.res,
               !.log[Len(tk.log)].status = r.status,
               !.log[Len(tk.log)].body = r.body]

\* login(), line 122: the auth request
Login(tk, ctx, token, cl) ==
    SessionRequest([tk EXCEPT !.ctx = ctx, !.tokAtLogin = token], cl, AuthExchange, "await_auth")

\* a variant that never logs in implicitly
NeedsLoginNever(token) == FALSE

\* a variant that logs in before every data request
NeedsLoginAlways(token) == TRUE

\* _request, line 88: if not self.xsrf_token
NeedsLogin(token) == token = <<>>

\* _request, lines 91-97: the data request is sent with the current token
SendData(tk, token, cl) ==
    SessionRequest(tk, cl, DataExchange(tk, token), "await_data")

\* _request, lines 88-97, entered with the given retry argument
Request(tk, retry, token, cl) ==
    LET frame == [tk EXCEPT !.retry = retry]
    IN  IF NeedsLogin(token)
        THEN Login(frame, IF retry THEN "initial" ELSE "retry_login", token, cl)
        ELSE SendData(frame, token, cl)

\* a variant whose recursive call may retry again
RetryArgumentTrue == TRUE

\* _request, line 103: the recursive call passes retry=False
RetryArgument == FALSE

\* the login() calls that run inside the try block of the first frame
InTry(ctx) == ctx \in {"relogin", "retry_login"}

\* a ClientError raised by a request of login(): login() has no handler, so
\* it reaches the caller unless the login runs inside _request's try block,
\* whose handler (lines 110-112) closes the session and raises APIError
LoginClientError(tk, message, cl) ==
    IF InTry(tk.ctx)
    THEN [tk |-> Raised(tk, APIError("APIError", message, NoStatus)), closed |-> TRUE]
    ELSE [tk |-> Raised(tk, ForeignError("ClientError", message)), closed |-> cl]

\* a variant that raises APIError for every status
LoginErrorAlwaysAPIError(status) == APIError("APIError", "", status)

\* login(), lines 136-139
LoginError(status) ==
    IF status = UNAUTHORIZED
    THEN APIError("AuthenticationError", "", UNAUTHORIZED)
    ELSE APIError("APIError", "", status)

\* _get_session, line 69
GetSessionError(status) == APIError("APIError", "", status)

\* a variant that only treats 401 as a failed auth call
LoginFailedOnly401(status) == status = UNAUTHORIZED

\* login(), line 133, and _get_session, line 67: resp.status != HTTPStatus.OK
LoginFailed(status) == status # OK

\* a variant that takes every non-OK status for a rejected token
IsUnauthorizedAnyError(status) == status # OK

\* _request, line 100: if resp.status == HTTPStatus.UNAUTHORIZED
IsUnauthorized(status) == status = UNAUTHORIZED

\* a variant that retries without logging in again
On401NoRelogin(retry) == IF retry THEN "retry" ELSE "fail"

\* _request, lines 100-106: what a 401 on the data request leads to
On401(retry) == IF retry THEN "relogin" ELSE "fail"

\* a variant that closes the session on every failed retry
ClosesOnStatusAlways(status) == TRUE

\* _request, lines 105 and 108-109: of the non-OK statuses that end the call
\* only 401 closes the session
ClosesOnStatus(status) == status = UNAUTHORIZED

\* a variant that raises the generic APIError for 401 too
DataErrorNeverAuth(status, text) == APIError("APIError", text, status)

\* _request, lines 106 and 108-109: the error of a non-OK data response
DataError(status, text) ==
    IF status = UNAUTHORIZED
    THEN APIError("AuthenticationError", "", UNAUTHORIZED)
    ELSE APIError("APIError", text, status)

\* a variant whose handler forgets to close the session
TransportErrorNoClose(tk, message, cl) ==
    [tk |-> Raised(tk, APIError("APIError", message, NoStatus)), closed |-> cl]

\* _request, lines 110-112: except ClientError
TransportError(tk, message, cl) ==
    [tk |-> Raised(tk, APIError("APIError", message, NoStatus)), closed |-> TRUE]

\* ---------------------------------------------------------------- responses
\* str(error) of the ClientError the transport raises
TransportMessage == "Connection reset by peer"

\* payloads the data endpoints answer with
Bodies == {"j1", "j2"}

Failure(status) ==
    [res |-> "ClientError", status |-> status, body |-> "",
     message |-> TransportMessage, cookies |-> <<>>]

Response(status, body, cookies) ==
    [res |-> "response", status |-> status, body |-> body,
     message |-> "", cookies |-> cookies]

AuthResponses == {Failure(NoStatus)} \cup {Response(s, "", <<>>) : s \in Statuses}

SessionResponses ==
    {Failure(NoStatus)}
        \cup {Response(s, "", <<>>) : s \in Statuses \ {OK}}
        \cup {Response(OK, "", h) : h \in HeaderLists}

\* the transport fails before a status is known, or (a status other than
\* 401 makes the code read the body) while resp.json() / resp.text() reads
DataResponses ==
    {Failure(NoStatus)}
        \cup {Response(s, b, <<>>) : s \in Statuses, b \in Bodies}
        \cup {Failure(s) : s \in Statuses \ {UNAUTHORIZED}}

LogoutResponses == {Failure(NoStatus)} \cup {Response(s, "", <<>>) : s \in Statuses}

\* the server answered the request with status OK
AnsweredOK(r) == r.res = "response" /\ r.status = OK

\* the values of the cookies named exactly XSRF-TOKEN in a Set-Cookie list
DeliveredValues(cookies) ==
    {GroupFrom(cookies[i], Len(XSRF_PATTERN) + 1) :
        i \in {k \in 1..Len(cookies) :
                 /\ Len(cookies[k]) >= Len(XSRF_PATTERN)
                 /\ SubSeq(cookies[k], 1, Len(XSRF_PATTERN)) = XSRF_PATTERN}} \ {<<>>}

\* ------------------------------------------------------------------ actions
NewCall(op, method, url) ==
    [IdleTask EXCEPT !.op = op, !.method = method, !.url = url,
                     !.token0 = xsrf_token, !.closed0 = closed]

CanCall(t) ==
    /\ task[t].pc \in {"idle", "done"}
    /\ ncalls < MaxCalls

\* the caller awaits client.login()
CallLogin(t) ==
    /\ CanCall(t)
    /\ task' = [task EXCEPT ![t] = Login(NewCall("login", "", ""), "explicit", xsrf_token, closed)]
    /\ ncalls' = ncalls + 1
    /\ UNCHANGED <<xsrf_token, closed, lastLogin, loginCompleted>>

\* the caller awaits client.logout(): line 146, the logout request
CallLogout(t) ==
    /\ CanCall(t)
    /\ task' = [task EXCEPT ![t] =
                  SessionRequest(NewCall("logout", "", ""), closed, LogoutExchange, "await_logout")]
    /\ ncalls' = ncalls + 1
    /\ UNCHANGED <<xsrf_token, closed, lastLogin, loginCompleted>>

\* a data operation is entered with its arguments: the URL and the body
\* are built and _get / _post hand them to _request
StartData(t, op, arg) ==
    LET call == [NewCall(op, Method(op), Url(op, arg)) EXCEPT
                    !.arg = arg, !.json = Json(op, arg)]
    IN  /\ task' = [task EXCEPT ![t] =
                      IF Accepts(op, arg)
                      THEN Request(call, TRUE, xsrf_token, closed)
                      ELSE Raised([NewCall(op, "", "") EXCEPT !.arg = arg],
                                  ForeignError("TypeError", "unexpected keyword argument"))]
        /\ ncalls' = ncalls + 1
        /\ UNCHANGED <<xsrf_token, closed, lastLogin, loginCompleted>>

\* the caller awaits one of the data operations
CallData(t, op) ==
    /\ CanCall(t)
    /\ \E arg \in DefaultArgs(op) : StartData(t, op, arg)

\* the first call on a new client is a data operation, with any arguments
CallDataArgs(t, op) ==
    /\ task[t].pc = "idle"
    /\ ncalls = 0
    /\ \E arg \in Args(op) : StartData(t, op, arg)

\* login(), lines 132-141: the auth request is answered
AuthResponseFrom(t, responses) ==
    /\ task[t].pc = "await_auth"
    /\ \E r \in responses :
         LET tk == Answered(task[t], r)
         IN  IF r.res = "ClientError"
             THEN LET o == LoginClientError(tk, r.message, closed)
                  IN  /\ task' = [task EXCEPT ![t] = o.tk]
                      /\ closed' = o.closed
             ELSE IF LoginFailed(r.status)
             THEN /\ task' = [task EXCEPT ![t] = Raised(tk, LoginError(r.status))]
                  /\ closed' = TRUE
             ELSE /\ task' = [task EXCEPT ![t] =
                                SessionRequest(tk, closed, SessionExchange, "await_session")]
                  /\ closed' = closed
    /\ UNCHANGED <<xsrf_token, ncalls, lastLogin, loginCompleted>>

\* the auth request is answered with any of the responses of the model
AuthResponse(t) == AuthResponseFrom(t, AuthResponses)

\* _get_session, lines 66-71, then login() line 142 and whatever the caller
\* of login() does next: return to the user, send the data request (line 89
\* returned), or enter the retry frame (line 103)
SessionResponseFrom(t, responses) ==
    /\ task[t].pc = "await_session"
    /\ \E r \in responses :
         LET tk == [Answered(task[t], r) EXCEPT
                      !.log[Len(task[t].log)].delivered = DeliveredValues(r.cookies)]
             token == SetXsrfToken(xsrf_token, r.cookies)
             auth == task[t].log[Len(task[t].log) - 1]
         IN  /\ loginCompleted' = (loginCompleted \/ (AnsweredOK(r) /\ AnsweredOK(auth)))
             /\ lastLogin' = IF AnsweredOK(r) THEN t ELSE lastLogin
             /\ IF r.res = "ClientError"
                THEN LET o == LoginClientError(tk, r.message, closed)
                     IN  /\ task' = [task EXCEPT ![t] = o.tk]
                         /\ closed' = o.closed
                         /\ xsrf_token' = xsrf_token
                ELSE IF LoginFailed(r.status)
                THEN /\ task' = [task EXCEPT ![t] = Raised(tk, GetSessionError(r.status))]
                     /\ closed' = TRUE
                     /\ xsrf_token' = xsrf_token
                ELSE /\ xsrf_token' = token
                     /\ closed' = closed
                     /\ task' = [task EXCEPT ![t] =
                           CASE tk.ctx = "explicit" -> Returned(tk, "None")
                             [] tk.ctx = "relogin" -> Request(tk, RetryArgument, token, closed)
                             [] OTHER -> SendData(tk, token, closed)]
    /\ UNCHANGED ncalls

\* the session-info request is answered with any of the responses of the model
SessionResponse(t) == SessionResponseFrom(t, SessionResponses)

\* _request, lines 97-112: the data request is answered
DataResponseFrom(t, responses) ==
    /\ task[t].pc = "await_data"
    /\ \E r \in responses :
         LET tk == Answered(task[t], r)
         IN  IF r.res = "ClientError"
             THEN LET o == TransportError(tk, r.message, closed)
                  IN  /\ task' = [task EXCEPT ![t] = o.tk]
                      /\ closed' = o.closed
             ELSE IF r.status = OK
             THEN /\ task' = [task EXCEPT ![t] = Returned(tk, r.body)]
                  /\ closed' = closed
             ELSE IF IsUnauthorized(r.status) /\ On401(tk.retry) = "relogin"
             THEN /\ task' = [task EXCEPT ![t] = Login(tk, "relogin", xsrf_token, closed)]
                  /\ closed' = closed
             ELSE IF IsUnauthorized(r.status) /\ On401(tk.retry) = "retry"
             THEN /\ task' = [task EXCEPT ![t] = Request(tk, FALSE, xsrf_token, closed)]
                  /\ closed' = closed
             ELSE /\ task' = [task EXCEPT ![t] = Raised(tk, DataError(r.status, r.body))]
                  /\ closed' = (closed \/ ClosesOnStatus(r.status))
    /\ UNCHANGED <<xsrf_token, ncalls, lastLogin, loginCompleted>>

\* the data request is answered with any of the responses of the model
DataResponse(t) == DataResponseFrom(t, DataResponses)

\* a variant of logout() that forgets the token
TokenAfterLogoutCleared(token) == <<>>

\* logout(), lines 144-154: no statement assigns self.xsrf_token
TokenAfterLogout(token) == token

\* logout(), lines 146-154: the outcome of the request is ignored, the
\* session is closed unless it is closed already; a ClientError of the
\* request is not handled
LogoutResponse(t) ==
    /\ task[t].pc = "await_logout"
    /\ \E r \in LogoutResponses :
         LET tk == Answered(task[t], r)
         IN  IF r.res = "ClientError"
             THEN /\ task' = [task EXCEPT ![t] =
                                Raised(tk, ForeignError("ClientError", r.message))]
                  /\ closed' = closed
                  /\ xsrf_token' = xsrf_token
             ELSE /\ task' = [task EXCEPT ![t] = Returned(tk, "None")]
                  /\ closed' = TRUE
                  /\ xsrf_token' = TokenAfterLogout(xsrf_token)
    /\ UNCHANGED <<ncalls, lastLogin, loginCompleted>>

Step(t) ==
    \/ CallLogin(t)
    \/ CallLogout(t)
    \/ \E op \in DataOps : CallData(t, op)
    \/ AuthResponse(t)
    \/ SessionResponse(t)
    \/ DataResponse(t)
    \/ LogoutResponse(t)

\* a sequential caller: one task, which awaits each call before the next
Next == Step(1)

Spec == Init /\ [][Next]_vars

\* every request the client awaits is answered, or fails in the transport
FairSpec ==
    /\ Spec
    /\ WF_vars(AuthResponse(1))
    /\ WF_vars(SessionResponse(1))
    /\ WF_vars(DataResponse(1))
    /\ WF_vars(LogoutResponse(1))

\* two coroutines of one caller (asyncio.gather): each awaits one
\* dashboard() on the same client, and their requests interleave at the
\* awaits
CallDataRace(t) ==
    /\ task[t].pc = "idle"
    /\ \E arg \in DefaultArgs("dashboard") : StartData(t, "dashboard", arg)

\* the responses of a server that accepts or rejects: each endpoint answers
\* OK or 401, the session-info endpoint without a token cookie or with one
\* of two tokens
RaceAuthResponses == {Response(s, "", <<>>) : s \in {OK, UNAUTHORIZED}}

RaceSessionResponses ==
    {Response(UNAUTHORIZED, "", <<>>)} \cup {Response(OK, "", h) : h \in {<<>>, <<CookieA>>, <<CookieJSession, CookieB>>}}

RaceDataResponses == {Response(s, "j1", <<>>) : s \in {OK, UNAUTHORIZED}}

NextRace ==
    \E t \in Tasks :
        \/ CallDataRace(t)
        \/ AuthResponseFrom(t, RaceAuthResponses)
        \/ SessionResponseFrom(t, RaceSessionResponses)
        \/ DataResponseFrom(t, RaceDataResponses)

SpecRace == Init /\ [][NextRace]_vars

\* one data operation on a new client, over all the arguments it takes
NextArgs ==
    \/ \E op \in DataOps : CallDataArgs(1, op)
    \/ AuthResponse(1)
    \/ SessionResponse(1)
    \/ DataResponse(1)

SpecArgs == Init /\ [][NextArgs]_vars

\* ------------------------------------------------------- reading the log
IsDataCall(tk) == tk.op \in DataOps
Done(tk) == tk.pc = "done"
ReturnedOK(tk) == Done(tk) /\ tk.outcome.kind = "return"
RaisedError(tk) == Done(tk) /\ tk.outcome.kind = "raise"

Of(tk, ep) == SelectSeq(tk.log, LAMBDA e : e.ep = ep)
Count(tk, ep) == Len(Of(tk, ep))

AnsweredWith(e, status) == e.res = "response" /\ e.status = status
AnsweredNotOK(e) == e.res = "response" /\ e.status # OK

\* every login request of the call so far was answered OK
LoginsSucceeded(tk) ==
    \A i \in 1..Len(tk.log) :
        tk.log[i].ep \in {"auth", "session"} => AnsweredWith(tk.log[i], OK)

EndpointOrder(tk) == [i \in 1..Len(tk.log) |-> tk.log[i].ep]

LastExchange(tk) == tk.log[Len(tk.log)]

\* the login() that ran last in the call was answered with a non-OK status,
\* by the auth endpoint or by the session-info endpoint
LoginFailedByStatus(tk) ==
    /\ Count(tk, "auth") > 0
    /\ LET a == Of(tk, "auth")[Count(tk, "auth")]
       IN  \/ AnsweredNotOK(a)
           \/ /\ LastExchange(tk).ep = "session"
              /\ AnsweredNotOK(LastExchange(tk))

\* ------------------------------------------------------------------ claims

\* C1: a data operation invoked by a sequential caller while the stored
\* token is empty sends its requests in the order auth, session-info, data:
\* the first data request is the third request of the call and is sent only
\* after both login requests were answered OK; when it is answered OK the
\* call returns having sent exactly these three requests.
C1_ImplicitLoginBeforeData ==
    \A t \in Tasks :
        LET tk == task[t]
        IN  (IsDataCall(tk) /\ tk.token0 = <<>>) =>
                /\ Len(tk.log) >= 1 => tk.log[1].ep = "auth"
                /\ Len(tk.log) >= 2 =>
                      AnsweredWith(tk.log[1], OK) /\ tk.log[2].ep = "session"
                /\ Len(tk.log) >= 3 =>
                      AnsweredWith(tk.log[2], OK) /\ tk.log[3].ep = "data"
                /\ (Len(tk.log) >= 3 /\ AnsweredWith(tk.log[3], OK)) =>
                      /\ ReturnedOK(tk)
                      /\ EndpointOrder(tk) = <<"auth", "session", "data">>

C1_Witness ==
    \E t \in Tasks :
        /\ IsDataCall(task[t]) /\ task[t].token0 = <<>>
        /\ ReturnedOK(task[t])
        /\ EndpointOrder(task[t]) = <<"auth", "session", "data">>
        /\ AnsweredWith(task[t].log[3], OK)

\* the case C2 is about: an authenticated client, the first attempt answered
\* 401, no login request of the call failed, the last attempt answered OK
C2_Case(tk) ==
    /\ IsDataCall(tk) /\ tk.token0 # <<>> /\ Done(tk)
    /\ Len(tk.log) >= 2
    /\ tk.log[1].ep = "data" /\ AnsweredWith(tk.log[1], UNAUTHORIZED)
    /\ LoginsSucceeded(tk)
    /\ LastExchange(tk).ep = "data" /\ AnsweredWith(LastExchange(tk), OK)

\* C2: a data call of an authenticated client whose first attempt is
\* answered 401, whose re-login succeeds and whose second attempt is
\* answered OK returns the JSON of the second attempt, after exactly two
\* requests to the data endpoint and exactly one login sequence.
C2_RetryOnceAfter401 ==
    \A t \in Tasks :
        LET tk == task[t]
        IN  C2_Case(tk) =>
                /\ EndpointOrder(tk) = <<"data", "auth", "session", "data">>
                /\ tk.outcome.kind = "return"
                /\ tk.outcome.value = tk.log[4].body

\* the two attempts carry different payloads, so the value returned tells
\* which attempt it came from
C2_Witness ==
    \E t \in Tasks :
        /\ C2_Case(task[t])
        /\ Len(task[t].log) = 4
        /\ task[t].log[1].body # task[t].log[4].body
        /\ task[t].outcome.value = task[t].log[4].body

\* C3: whatever the server answers, one data call sends at most two requests
\* to its data endpoint and performs at most two login sequences.
C3_AtMostTwoLogins ==
    \A t \in Tasks :
        IsDataCall(task[t]) =>
            /\ Count(task[t], "data") <= 2
            /\ Count(task[t], "auth") <= 2
            /\ Count(task[t], "session") <= 2

\* the case C4 is about: both attempts of the call were answered 401
C4_Case(tk) ==
    /\ IsDataCall(tk) /\ Done(tk)
    /\ Count(tk, "data") = 2
    /\ AnsweredWith(Of(tk, "data")[1], UNAUTHORIZED)
    /\ AnsweredWith(Of(tk, "data")[2], UNAUTHORIZED)

\* C4: when the first attempt of a data call and, after a successful
\* re-login, the retried attempt are both answered 401, the call raises
\* AuthenticationError with status 401 and the session is closed.
C4_Second401IsFatal ==
    \A t \in Tasks :
        LET tk == task[t]
        IN  C4_Case(tk) =>
                /\ tk.outcome.kind = "raise"
                /\ tk.outcome.type = "AuthenticationError"
                /\ tk.outcome.status = UNAUTHORIZED
                /\ closed

C4_Witness ==
    \E t \in Tasks :
        /\ C4_Case(task[t])
        /\ task[t].token0 # <<>>
        /\ EndpointOrder(task[t]) = <<"data", "auth", "session", "data">>
        /\ closed

\* the case C5 is about: the first attempt was answered 401 and the retried
\* attempt was answered with a non-OK status
C5_Case(tk) ==
    /\ IsDataCall(tk) /\ Done(tk)
    /\ Count(tk, "data") = 2
    /\ AnsweredWith(Of(tk, "data")[1], UNAUTHORIZED)
    /\ AnsweredNotOK(Of(tk, "data")[2])

\* C5, as claimed: whatever non-OK status the retried attempt is answered
\* with, the call raises AuthenticationError and closes the session.
C5_Original ==
    \A t \in Tasks :
        C5_Case(task[t]) =>
            /\ task[t].outcome.kind = "raise"
            /\ task[t].outcome.type = "AuthenticationError"
            /\ closed

\* C5, amended: a retried attempt answered 401 makes the call raise
\* AuthenticationError and close the session; a retried attempt answered
\* with another non-OK status makes the call raise the generic APIError
\* carrying that status, and leaves the session open.
C5_RetryFailure ==
    \A t \in Tasks :
        LET tk == task[t]
            status == Of(tk, "data")[2].status
        IN  C5_Case(tk) =>
                /\ tk.outcome.kind = "raise"
                /\ tk.outcome.status = status
                /\ (status = UNAUTHORIZED) =>
                      tk.outcome.type = "AuthenticationError" /\ closed
                /\ (status # UNAUTHORIZED) =>
                      tk.outcome.type = "APIError" /\ ~closed

C5_Witness ==
    \E t \in Tasks :
        /\ C5_Case(task[t])
        /\ Of(task[t], "data")[2].status = 500
        /\ task[t].outcome.type = "APIError"
        /\ task[t].outcome.status = 500
        /\ ~closed

\* a request of the call failed in the transport
TransportFailed(tk) ==
    \E i \in 1..Len(tk.log) : tk.log[i].res = "ClientError"

\* C6: a transport failure at any point of a data call (implicit initial
\* login, first attempt, re-login, retried attempt) makes the call raise
\* APIError with the transport error's message and no status, and the
\* session is closed.
C6_TransportFailure ==
    \A t \in Tasks :
        LET tk == task[t]
        IN  (IsDataCall(tk) /\ Done(tk) /\ TransportFailed(tk)) =>
                /\ tk.outcome.kind = "raise"
                /\ tk.outcome.type = "APIError"
                /\ tk.outcome.message = TransportMessage
                /\ tk.outcome.status = NoStatus
                /\ closed

\* the case C7 is about: a login() of the call has been answered with a
\* non-OK status by one of its two endpoints
C7_AuthRejected(tk, status) ==
    /\ Len(tk.log) >= 1
    /\ LastExchange(tk).ep = "auth"
    /\ AnsweredWith(LastExchange(tk), status)

C7_SessionRejected(tk, status) ==
    /\ Len(tk.log) >= 1
    /\ LastExchange(tk).ep = "session"
    /\ AnsweredWith(LastExchange(tk), status)

\* C7: login() raises AuthenticationError exactly when the auth endpoint
\* answers 401; another non-OK status of the auth endpoint and every non-OK
\* status of the session-info endpoint, 401 included, raise the generic
\* APIError carrying that status.
C7_LoginErrors ==
    \A t \in Tasks :
        LET tk == task[t]
        IN  /\ C7_AuthRejected(tk, UNAUTHORIZED) =>
                  /\ RaisedError(tk)
                  /\ tk.outcome.type = "AuthenticationError"
                  /\ tk.outcome.status = UNAUTHORIZED
            /\ \A s \in Statuses \ {OK, UNAUTHORIZED} :
                  C7_AuthRejected(tk, s) =>
                      /\ RaisedError(tk)
                      /\ tk.outcome.type = "APIError"
                      /\ tk.outcome.status = s
            /\ \A s \in Statuses \ {OK} :
                  C7_SessionRejected(tk, s) =>
                      /\ RaisedError(tk)
                      /\ tk.outcome.type = "APIError"
                      /\ tk.outcome.status = s
            /\ (tk.op = "login" /\ RaisedError(tk)
                  /\ tk.outcome.type = "AuthenticationError") =>
                      C7_AuthRejected(tk, UNAUTHORIZED)

C7_Witness ==
    \E t \in Tasks :
        /\ task[t].op = "login"
        /\ C7_SessionRejected(task[t], UNAUTHORIZED)
        /\ task[t].outcome.type = "APIError"
        /\ task[t].outcome.status = UNAUTHORIZED

\* C8, as claimed: after a login() that failed because the auth call or the
\* session-info call was answered with a non-OK status the stored token is
\* empty, for a first login and for a re-login alike.
C8_Original ==
    \A t \in Tasks :
        LoginFailedByStatus(task[t]) => xsrf_token = <<>>

\* C8, amended: a login() that fails because the auth call or the
\* session-info call was answered with a non-OK status leaves the stored
\* token as it was when that login began: empty when no login had succeeded
\* before, the token of the earlier login when it is a re-login.
C8_FailedLoginKeepsToken ==
    \A t \in Tasks :
        LoginFailedByStatus(task[t]) =>
            /\ RaisedError(task[t])
            /\ xsrf_token = task[t].tokAtLogin

\* a re-login after an earlier successful login fails; the token stays
C8_Witness ==
    \E t \in Tasks :
        /\ LoginFailedByStatus(task[t])
        /\ task[t].tokAtLogin # <<>>
        /\ xsrf_token = task[t].tokAtLogin

\* the case C9 is about: an authenticated client, the first attempt of a
\* data call answered 401, the retried attempt sent, and the call ended
\* with an error
C9_Case(tk) ==
    /\ IsDataCall(tk) /\ tk.token0 # <<>> /\ RaisedError(tk)
    /\ Count(tk, "data") = 2
    /\ AnsweredWith(Of(tk, "data")[1], UNAUTHORIZED)

\* C9, as claimed: after the 401 and the failed retry the stored token is
\* empty.
C9_Original ==
    \A t \in Tasks :
        C9_Case(task[t]) => xsrf_token = <<>>

\* C9, amended: after a data call of an authenticated client got 401 and
\* its retry failed too, the stored token is not cleared: it is still
\* non-empty when the error is surfaced, and the request that failed last
\* carried it.
C9_TokenSurvivesFailedRetry ==
    \A t \in Tasks :
        LET tk == task[t]
        IN  C9_Case(tk) =>
                /\ xsrf_token # <<>>
                /\ xsrf_token = Of(tk, "data")[2].xsrf

C9_Witness ==
    \E t \in Tasks :
        /\ C9_Case(task[t])
        /\ AnsweredWith(Of(task[t], "data")[2], UNAUTHORIZED)
        /\ task[t].outcome.type = "AuthenticationError"
        /\ xsrf_token # <<>>

\* C10: when login() returns without raising, the stored token is non-empty
\* and is an XSRF-TOKEN value the session-info response delivered.
C10_LoginSuccessAuthenticates ==
    \A t \in Tasks :
        LET tk == task[t]
        IN  (tk.op = "login" /\ ReturnedOK(tk)) =>
                /\ xsrf_token # <<>>
                /\ xsrf_token \in LastExchange(tk).delivered

\* C11: the token is empty at construction, and in every reachable state a
\* non-empty stored token implies that an earlier login sequence of this
\* client completed: its auth call and then its session-info call were
\* answered OK.
C11_TokenImpliesLogin ==
    /\ (ncalls = 0 => xsrf_token = <<>>)
    /\ (xsrf_token # <<>> => loginCompleted)

C11_Witness ==
    /\ xsrf_token # <<>>
    /\ loginCompleted
    /\ \E t \in Tasks : task[t].op = "login" /\ ReturnedOK(task[t])

\* C12: every request sent to a data endpoint carries the header
\* x-xsrf-token with the token stored at the moment of sending, and that
\* value is a valid token (non-empty, issued by a completed login); the
\* auth, session-info and logout requests carry no x-xsrf-token.
C12_DataRequestsCarryValidToken ==
    \A t \in Tasks :
        \A i \in 1..Len(task[t].log) :
            LET e == task[t].log[i]
            IN  IF e.ep = "data"
                THEN /\ e.hasXsrf
                     /\ e.res = "pending" => e.xsrf = xsrf_token
                     /\ e.xsrf # <<>>
                     /\ loginCompleted
                ELSE ~e.hasXsrf

\* C13: logout() sends one logout request, ignores its outcome, leaves the
\* session closed and completes without error from every client state,
\* also when the session is closed already and when the logout request
\* fails in the transport.
C13_LogoutAlwaysSucceeds ==
    \A t \in Tasks :
        (task[t].op = "logout" /\ Done(task[t])) =>
            /\ ReturnedOK(task[t])
            /\ Count(task[t], "logout") = 1
            /\ closed

\* the call ended because a data attempt was answered with a non-OK status
\* other than 401
EndedByDataStatus(tk) ==
    /\ Len(tk.log) >= 1
    /\ LastExchange(tk).ep = "data"
    /\ AnsweredNotOK(LastExchange(tk))
    /\ LastExchange(tk).status # UNAUTHORIZED

\* login() or a data call ended by raising AuthenticationError or APIError
C14_Case(tk) ==
    /\ (tk.op = "login" \/ IsDataCall(tk))
    /\ RaisedError(tk)
    /\ tk.outcome.type \in {"AuthenticationError", "APIError"}

\* C14, as claimed: every path on which login() or a data call raises
\* AuthenticationError or APIError has closed the session.
C14_Original ==
    \A t \in Tasks :
        C14_Case(task[t]) => closed

\* C14, amended: every path on which login() or a data call raises
\* AuthenticationError or APIError has closed the session, except the path
\* on which a data attempt (first or retried) is answered with a non-OK
\* status other than 401: that APIError is raised with the session open.
C14_ErrorsCloseExceptDataStatus ==
    \A t \in Tasks :
        C14_Case(task[t]) => (closed <=> ~EndedByDataStatus(task[t]))

\* the re-login inside a data call fails in the transport: APIError, closed
C14_Witness ==
    \E t \in Tasks :
        /\ C14_Case(task[t])
        /\ IsDataCall(task[t])
        /\ task[t].ctx = "relogin"
        /\ LastExchange(task[t]).res = "ClientError"
        /\ closed

\* C15: a data call whose attempt is answered with a non-OK status other
\* than 401 raises APIError carrying that status and, when the response has
\* a body, the body text as its message.
C15_DataStatusError ==
    \A t \in Tasks :
        LET tk == task[t]
        IN  (IsDataCall(tk) /\ Done(tk) /\ EndedByDataStatus(tk)) =>
                /\ tk.outcome.kind = "raise"
                /\ tk.outcome.type = "APIError"
                /\ tk.outcome.status = LastExchange(tk).status
                /\ LastExchange(tk).body # "" =>
                      tk.outcome.message = LastExchange(tk).body

\* the values separated by commas, in the order given (built from the end)
RECURSIVE CommaSeparated(_)
CommaSeparated(values) ==
    IF Len(values) = 0 THEN ""
    ELSE IF Len(values) = 1 THEN values[1]
    ELSE CommaSeparated(SubSeq(values, 1, Len(values) - 1)) \o "," \o values[Len(values)]

\* the query C16 states for an argument
C16_Query(key, arg) ==
    CASE arg.kind = "list" ->
            "?" \o key \o "=" \o
                CommaSeparated([i \in 1..Len(arg.list) |-> EnumValue(arg.list[i])])
      [] arg.kind = "single" -> "?" \o key \o "=" \o EnumValue(arg.single)
      [] OTHER -> ""

C16_Url(tk) ==
    IF tk.op = "consents"
    THEN "/service/v1.0/consents" \o C16_Query("status", tk.arg)
    ELSE "/service/v1.0/consumptions/profiles" \o C16_Query("branch", tk.arg)

\* C16: consents(status) requests the consents path with ?status= followed
\* by the values joined by commas in input order for a list, ?status=<value>
\* for a single value, and no query string for None; consumptions_profiles
\* does the same with the key branch.
C16_QueryFromArgument ==
    \A t \in Tasks :
        LET tk == task[t]
        IN  tk.op \in {"consents", "consumptions_profiles"} =>
                /\ tk.url = C16_Url(tk)
                /\ \A i \in 1..Len(tk.log) :
                      tk.log[i].ep = "data" =>
                          tk.log[i].url = C16_Url(tk) /\ tk.log[i].method = "GET"
                /\ (tk.op = "consents"
                      /\ tk.arg = ListArg(<<"ACTIVE", "ACTIVE_UNCHANGEABLE">>)) =>
                      tk.url = "/service/v1.0/consents?status=ACTIVE,ACTIVE_UNCHANGEABLE"
                /\ (tk.op = "consents" /\ tk.arg = SingleArg("ACTIVE")) =>
                      tk.url = "/service/v1.0/consents?status=ACTIVE"
                /\ (tk.op = "consents" /\ tk.arg = NoArg) =>
                      tk.url = "/service/v1.0/consents"
                /\ (tk.op = "consumptions_profiles" /\ tk.arg = SingleArg("ELECTRICITY")) =>
                      tk.url = "/service/v1.0/consumptions/profiles?branch=STROM"

C16_Witness ==
    \E t \in Tasks :
        /\ task[t].op = "consents"
        /\ task[t].arg = ListArg(<<"ACTIVE", "ACTIVE_UNCHANGEABLE">>)
        /\ Count(task[t], "data") = 1
        /\ Of(task[t], "data")[1].url =
              "/service/v1.0/consents?status=ACTIVE,ACTIVE_UNCHANGEABLE"

\* C17: consumptions_profile accepts a list of profile-request descriptors
\* and POSTs a body whose dimension is ENERGY and whose pods list has one
\* entry per descriptor, in input order, entry i carrying the fields of
\* descriptor i.
C17_PodsPerDescriptor ==
    \A t \in Tasks :
        LET tk == task[t]
        IN  (tk.op = "consumptions_profile" /\ tk.arg.kind = "pods") =>
                /\ ~(RaisedError(tk) /\ tk.outcome.type = "TypeError")
                /\ \A i \in 1..Len(tk.log) :
                      tk.log[i].ep = "data" =>
                          /\ tk.log[i].method = "POST"
                          /\ tk.log[i].json.dimension = "ENERGY"
                          /\ tk.log[i].json.pods =
                                [k \in 1..Len(tk.arg.pods) |->
                                   [contractAccountNumber |->
                                        tk.arg.pods[k].contract_account_number,
                                    energyCommunityId |-> tk.arg.pods[k].energy_community_id,
                                    type |-> tk.arg.pods[k].profile_type,
                                    bestAvailableGranularity |->
                                        tk.arg.pods[k].best_available_granularity,
                                    meterPointAdministrationNumber |->
                                        tk.arg.pods[k].meter_point_administration_number,
                                    timerange |-> [from |-> tk.arg.pods[k].date_from,
                                                   to |-> tk.arg.pods[k].date_to]]]

\* a data call entered with a stored token whose first data request was
\* answered OK
C18_Case(tk) ==
    /\ IsDataCall(tk)
    /\ tk.token0 # <<>>
    /\ Count(tk, "data") >= 1
    /\ AnsweredWith(Of(tk, "data")[1], OK)

\* C18: a data call made while a token is stored and whose first attempt
\* returns OK sends exactly one request, to the data endpoint, performs no
\* login sequence, and leaves the stored token and the session unchanged.
C18_OKFirstAttemptFrame ==
    \A t \in Tasks :
        LET tk == task[t]
        IN  C18_Case(tk) =>
                /\ Len(tk.log) = 1
                /\ tk.log[1].ep = "data"
                /\ Count(tk, "auth") = 0
                /\ Count(tk, "session") = 0
                /\ ReturnedOK(tk)
                /\ xsrf_token = tk.token0
                /\ closed = tk.closed0
                /\ ~closed

C18_Witness ==
    \E t \in Tasks :
        /\ C18_Case(task[t])
        /\ ReturnedOK(task[t])
        /\ task[t].op = "dashboard"

\* a data call whose first data request was answered 401 and whose retry
\* was sent
C19_Case(tk) ==
    /\ IsDataCall(tk)
    /\ Count(tk, "data") = 2
    /\ AnsweredWith(Of(tk, "data")[1], UNAUTHORIZED)

\* C19: the retried attempt of a data call carries the token obtained by
\* the re-login that preceded it, an XSRF-TOKEN value which that login's
\* session-info response delivered, and after a successful retry the
\* stored token is that new token.
C19_RetryCarriesNewToken ==
    \A t \in Tasks :
        LET tk == task[t]
            retried == Of(tk, "data")[2]
            relogin == tk.log[Len(tk.log) - 1]
        IN  C19_Case(tk) =>
                /\ relogin.ep = "session"
                /\ retried.xsrf \in relogin.delivered
                /\ ReturnedOK(tk) => xsrf_token = retried.xsrf

\* a data call that has not returned or raised yet
C20_Running(t) == IsDataCall(task[t]) /\ ~Done(task[t])

\* a data call has returned decoded JSON or raised an error
C20_Ended(t) ==
    /\ IsDataCall(task[t])
    /\ Done(task[t])
    /\ task[t].outcome.kind \in {"return", "raise"}

\* a data call sends at most two data requests and runs at most three
\* login sequences
C20_BoundedRequests ==
    \A t \in Tasks :
        IsDataCall(task[t]) =>
            /\ Count(task[t], "data") <= 2
            /\ Count(task[t], "auth") <= 3
            /\ Count(task[t], "session") <= 3

\* C20: every data call terminates, returning decoded JSON or raising an
\* error, for every sequence of server responses, also when every data
\* request is answered 401 and the session-info endpoint never supplies an
\* XSRF-TOKEN cookie; the number of requests of one call is bounded.
C20_DataCallsTerminate ==
    /\ []C20_BoundedRequests
    /\ \A t \in Tasks : C20_Running(t) ~> C20_Ended(t)

C20_Witness ==
    \E t \in Tasks :
        LET tk == task[t]
        IN  /\ C20_Ended(t)
            /\ Len(tk.log) = 8
            /\ \A i \in 1..Len(tk.log) :
                  /\ tk.log[i].ep = "data" => AnsweredWith(tk.log[i], UNAUTHORIZED)
                  /\ tk.log[i].ep = "session" => tk.log[i].delivered = {}
            /\ xsrf_token = <<>>
            /\ tk.outcome.type = "AuthenticationError"

\* C21: in login() the session-info request is sent only after the auth
\* request was answered OK: every session-info request follows directly an
\* auth request answered OK; a login() whose auth request is answered with
\* a non-OK status sends exactly one request and no session-info request;
\* a login() whose auth is OK and whose session-info is non-OK sends exactly
\* two requests.
C21_SessionInfoAfterAuthOK ==
    \A t \in Tasks :
        LET tk == task[t]
        IN  /\ \A i \in 1..Len(tk.log) :
                  tk.log[i].ep = "session" =>
                      /\ i > 1
                      /\ tk.log[i - 1].ep = "auth"
                      /\ AnsweredWith(tk.log[i - 1], OK)
            /\ (tk.op = "login" /\ Count(tk, "auth") = 1
                  /\ AnsweredNotOK(Of(tk, "auth")[1])) =>
                    /\ Len(tk.log) = 1
                    /\ Count(tk, "session") = 0
                    /\ RaisedError(tk)
            /\ (tk.op = "login" /\ Count(tk, "session") = 1
                  /\ AnsweredNotOK(Of(tk, "session")[1])) =>
                    /\ Len(tk.log) = 2
                    /\ AnsweredWith(tk.log[1], OK)
                    /\ RaisedError(tk)

C21_Witness ==
    \E t \in Tasks :
        LET tk == task[t]
        IN  /\ tk.op = "login"
            /\ RaisedError(tk)
            /\ Len(tk.log) = 2
            /\ AnsweredWith(tk.log[1], OK)
            /\ tk.log[2].ep = "session"
            /\ AnsweredWith(tk.log[2], 500)

\* a data call whose first data request came back with a non-OK status
\* other than 401
C22_Case(tk) ==
    /\ IsDataCall(tk)
    /\ Count(tk, "data") >= 1
    /\ Of(tk, "data")[1].res # "pending"
    /\ Of(tk, "data")[1].status \in Statuses \ {OK, UNAUTHORIZED}

\* C22: a data call whose first attempt returns a non-OK status other than
\* 401 is not retried and triggers no re-login: the data request is the
\* only one sent to the data endpoint and the last request of the call, the
\* call raises APIError, and the stored token is the one the request
\* carried (the token the call started with, when that was not empty).
C22_OtherStatusNotRetried ==
    \A t \in Tasks :
        LET tk == task[t]
        IN  C22_Case(tk) =>
                /\ Count(tk, "data") = 1
                /\ LastExchange(tk).ep = "data"
                /\ RaisedError(tk)
                /\ tk.outcome.type = "APIError"
                /\ xsrf_token = Of(tk, "data")[1].xsrf
                /\ tk.token0 # <<>> => (Len(tk.log) = 1 /\ xsrf_token = tk.token0)

C22_Witness ==
    \E t \in Tasks :
        LET tk == task[t]
        IN  /\ C22_Case(tk)
            /\ tk.token0 # <<>>
            /\ AnsweredWith(tk.log[1], 500)
            /\ tk.outcome.status = 500

\* a call of logout() holds the token it found
C23_LogoutHoldsToken ==
    \A t \in Tasks :
        task[t].op = "logout" => xsrf_token = task[t].token0

\* logout() called after a login() that returned starts from the token
\* that login() left
C23_LogoutAfterLogin(t) ==
    (task[t].op = "login" /\ ReturnedOK(task[t]) /\ task'[t].op = "logout") =>
        /\ task'[t].token0 = xsrf_token
        /\ xsrf_token' = xsrf_token

\* C23: logout() leaves the stored token unchanged: while logout() runs and
\* after it ended the token is the one it found, so after login() followed
\* by logout() the token still equals the value obtained at login.
C23_LogoutKeepsToken ==
    /\ []C23_LogoutHoldsToken
    /\ [][\A t \in Tasks : C23_LogoutAfterLogin(t)]_vars

C23_Witness ==
    \E t \in Tasks :
        /\ task[t].op = "logout"
        /\ ReturnedOK(task[t])
        /\ ncalls = 2
        /\ loginCompleted
        /\ closed
        /\ task[t].token0 # <<>>
        /\ xsrf_token = task[t].token0

\* the XSRF-TOKEN values the session-info response of the login() that
\* returned last in the call of task t delivered
C24_Delivered(t) ==
    LET ok == SelectSeq(task[t].log,
                        LAMBDA e : e.ep = "session" /\ AnsweredWith(e, OK))
    IN  IF Len(ok) = 0 THEN {} ELSE ok[Len(ok)].delivered

\* a data call that found the token empty runs its own login sequence,
\* whatever the other call is doing
C24_OwnLogin(t) ==
    LET tk == task[t]
    IN  (IsDataCall(tk) /\ tk.token0 = <<>> /\ Len(tk.log) >= 1) =>
            /\ tk.log[1].ep = "auth"
            /\ Count(tk, "data") >= 1 =>
                  /\ AnsweredWith(tk.log[1], OK)
                  /\ tk.log[2].ep = "session"
                  /\ AnsweredWith(tk.log[2], OK)

\* the login that returned last decides the token: when its session-info
\* response delivered a token, the stored token is not one that only the
\* other call's login was delivered
C24_LastLoginWins(t) ==
    (lastLogin = t /\ C24_Delivered(t) # {}) =>
        \A u \in Tasks \ {t} : xsrf_token \notin C24_Delivered(u) \ C24_Delivered(t)

\* C24: two data calls issued concurrently on one client whose token is
\* empty are not serialised on the token refresh: each call that found the
\* token empty performs its own login sequence, and the stored token is the
\* value written by the login that finished last.
C24_NoMutualExclusion ==
    \A t \in Tasks : C24_OwnLogin(t) /\ C24_LastLoginWins(t)

\* both calls found the token empty, so both login sequences were under way
\* before either data request was sent; the first login stored a token and
\* sent its data request with it, the second login overwrote it
C24_Witness ==
    /\ \A t \in Tasks :
          /\ task[t].op = "dashboard"
          /\ task[t].token0 = <<>>
          /\ ReturnedOK(task[t])
          /\ Len(task[t].log) = 3
    /\ lastLogin = 2
    /\ C24_Delivered(1) = {<<"a">>}
    /\ C24_Delivered(2) = {<<"b">>}
    /\ task[1].log[3].xsrf = <<"a">>
    /\ task[2].log[3].xsrf = <<"b">>
    /\ xsrf_token = <<"b">>

====
